---- MODULE Spec2Model ----
(***************************************************************************)
(* Authentication and account-security flow of the accounts app:           *)
(* login_view, verify_pin_view, logout_view, register_view,                *)
(* forgot_pin_view, reset_pin_view, security_settings_view,                *)
(* api_send_verification_email, api_verify_email and the helpers of        *)
(* accounts/utils.py (create_otp_record, verify_otp,                       *)
(* check_login_attempts).                                                  *)
(*                                                                         *)
(* The database tables are the variables User, UserProfile,                *)
(* SecuritySettings, LoginHistory and OTP.  Each browser session is a      *)
(* process: session[s] is its session store, pc[s] and req[s] are the      *)
(* position and the local variables of the request it has in flight.  The  *)
(* handlers that redeem an OTP are split at their database statements,     *)
(* because the code runs them in autocommit mode with no transaction and   *)
(* no row lock; every other handler is one step.  resp is the result of    *)
(* the transition just taken.                                              *)
(*                                                                         *)
(* The specifications share the handlers: Spec is the login flow, SpecOtp  *)
(* the OTP ledger and its three redemption paths, SpecLockout one          *)
(* credential with the default max_login_attempts of 5, SpecPolicy the     *)
(* security settings form, SpecRegister registration from empty tables,    *)
(* SpecJournal the login flow together with the OTP ledger, and SpecExtend *)
(* two credentials that keep submitting within the lockout window.         *)
(*                                                                         *)
(* Time is in minutes.  Origin addresses and user agents are not modelled. *)
(***************************************************************************)
EXTENDS Integers, Sequences, FiniteSets, TLC

\* ------------------------------------------------------------------ bounds
MaxTime == 31
MaxJournal == 4
MaxStreak == 2
MaxOtps == 2
MaxTimeOtp == 10
MaxJournalLockout == 8
MaxJournalAll == 3
MaxJournalExtend == 6
MaxTimeExtend == 42
MaxOtpsAll == 1

\* ------------------------------------------------------- program constants
LOCKOUT_WINDOW == 30
OTP_LIFETIME == 10
DEFAULT_MAX_LOGIN_ATTEMPTS == 5
SESSION_TIMEOUT_MIN == 5
SESSION_TIMEOUT_MAX == 1440
MAX_LOGIN_ATTEMPTS_MIN == 1
MAX_LOGIN_ATTEMPTS_MAX == 10
TWO_FACTOR_TIMEOUT_FLOOR == 15

\* ------------------------------------------------------------ value spaces
Users == {"u1", "u2"}
Sessions == {"s1", "s2"}
Identities == Users \cup {"nobody"}
Passwords == {"good", "bad"}
Pins == {"1234", "4321"}
\* Two of the values random.randint(100000, 999999) returns in
\* create_otp_record.
randint_draws == {n \in {111111, 222222} : 100000 <= n /\ n <= 999999}
\* str(...) of a draw; a submitted code is one of these strings too.
Codes == {ToString(n) : n \in randint_draws}
OtpTypes == {"pin_reset", "email_verification"}
AdvanceSteps == {10, 31}
\* Clock steps shorter than the lockout window.
ExtendSteps == {d \in {21} : d < LOCKOUT_WINDOW}
\* Values posted in the session_timeout and max_login_attempts fields.
SubmittedTimeouts == {4, 10, 14, 15}
SubmittedAttempts == {0, 5, 10}
None == "none"
NoPin == ""

VARIABLES now, User, UserProfile, SecuritySettings, LoginHistory, OTP,
          session, pc, req, resp

vars == <<now, User, UserProfile, SecuritySettings, LoginHistory, OTP,
          session, pc, req, resp>>

\* request.session of a visitor with no cookie yet; also what is left after
\* session.flush().
EmptySession ==
  [user |-> None, pending_user_id |-> None, pending_auth |-> FALSE,
   reset_user_id |-> None]

\* The local variables of a request in flight: the user it acts for, the
\* submitted code and new PIN, and the OTP row it fetched (0: none yet).
NoReq == [user |-> None, code |-> None, new_pin |-> None, otp |-> 0]

\* The result of the transition just taken.  streak counts the wrong-password
\* login submissions made for `user` one after the other, with no other
\* transition in between; code is the OTP code a redemption was given.
Resp(op, outcome) ==
  [op |-> op, outcome |-> outcome, user |-> None, streak |-> 0,
   code |-> None]

\* ------------------------------------------------------------ the database
UserProfileRow(pin) == [pin |-> pin, email_verified |-> FALSE]

SecuritySettingsRow(max) ==
  [two_factor_enabled |-> FALSE, session_timeout |-> 30,
   max_login_attempts |-> max]

LoginHistoryRow(user, success, failure_reason) ==
  [user |-> user, login_time |-> now, success |-> success,
   failure_reason |-> failure_reason]

log_login_attempt_overwrite(user, success, failure_reason) ==
  IF LoginHistory = <<>>
  THEN <<LoginHistoryRow(user, success, failure_reason)>>
  ELSE [LoginHistory EXCEPT
          ![Len(LoginHistory)] = LoginHistoryRow(user, success,
                                                 failure_reason)]

\* LoginHistory.objects.create(...)
log_login_attempt(user, success, failure_reason) ==
  Append(LoginHistory, LoginHistoryRow(user, success, failure_reason))

get_security_settings(user) == SecuritySettings[user]

check_login_attempts_strict(user) ==
  LET thirty_minutes_ago == now - LOCKOUT_WINDOW
      failed_attempts ==
        Cardinality({i \in DOMAIN LoginHistory :
                       /\ LoginHistory[i].user = user
                       /\ ~LoginHistory[i].success
                       /\ LoginHistory[i].login_time >= thirty_minutes_ago})
  IN  failed_attempts > get_security_settings(user).max_login_attempts

check_login_attempts_nowindow(user) ==
  LET failed_attempts ==
        Cardinality({i \in DOMAIN LoginHistory :
                       /\ LoginHistory[i].user = user
                       /\ ~LoginHistory[i].success})
  IN  failed_attempts >= get_security_settings(user).max_login_attempts

check_login_attempts_norejections(user) ==
  LET thirty_minutes_ago == now - LOCKOUT_WINDOW
      failed_attempts ==
        Cardinality({i \in DOMAIN LoginHistory :
                       /\ LoginHistory[i].user = user
                       /\ ~LoginHistory[i].success
                       /\ LoginHistory[i].failure_reason
                            /= "Too many failed attempts"
                       /\ LoginHistory[i].login_time >= thirty_minutes_ago})
  IN  failed_attempts >= get_security_settings(user).max_login_attempts

check_login_attempts_nopin(user) ==
  LET thirty_minutes_ago == now - LOCKOUT_WINDOW
      failed_attempts ==
        Cardinality({i \in DOMAIN LoginHistory :
                       /\ LoginHistory[i].user = user
                       /\ ~LoginHistory[i].success
                       /\ LoginHistory[i].failure_reason /= "Invalid PIN"
                       /\ LoginHistory[i].login_time >= thirty_minutes_ago})
  IN  failed_attempts >= get_security_settings(user).max_login_attempts

check_login_attempts_sincesuccess(user) ==
  LET thirty_minutes_ago == now - LOCKOUT_WINDOW
      successes == {j \in DOMAIN LoginHistory :
                      LoginHistory[j].user = user /\ LoginHistory[j].success}
      failed_attempts ==
        Cardinality({i \in DOMAIN LoginHistory :
                       /\ LoginHistory[i].user = user
                       /\ ~LoginHistory[i].success
                       /\ \A j \in successes : j < i
                       /\ LoginHistory[i].login_time >= thirty_minutes_ago})
  IN  failed_attempts >= get_security_settings(user).max_login_attempts

check_login_attempts(user) ==
  LET thirty_minutes_ago == now - LOCKOUT_WINDOW
      failed_attempts ==
        Cardinality({i \in DOMAIN LoginHistory :
                       /\ LoginHistory[i].user = user
                       /\ ~LoginHistory[i].success
                       /\ LoginHistory[i].login_time >= thirty_minutes_ago})
  IN  failed_attempts >= get_security_settings(user).max_login_attempts

\* django.contrib.auth.authenticate with the default ModelBackend: the user
\* whose username is the e-mail, whose password checks and who is active.
authenticate(username, password) ==
  IF /\ username \in DOMAIN User
     /\ User[username].password = password
     /\ User[username].is_active
  THEN username
  ELSE None

\* CustomAuthenticationForm adds widgets only; is_valid() runs the inherited
\* AuthenticationForm.clean(), which authenticates and rejects the form when
\* no active user matches.
CustomAuthenticationForm_is_valid(username, password) ==
  authenticate(username, password) /= None

pin_required_never(user) == FALSE

pin_required_always(user) == user \in DOMAIN UserProfile

\* `if profile.pin:` inside `try: UserProfile.objects.get(user=user)`.
pin_required(user) ==
  /\ user \in DOMAIN UserProfile
  /\ UserProfile[user].pin /= NoPin

validate_pin_capped(user, pin) ==
  /\ user \in DOMAIN UserProfile
  /\ UserProfile[user].pin = pin
  /\ ~check_login_attempts(user)

validate_pin(user, pin) ==
  /\ user \in DOMAIN UserProfile
  /\ UserProfile[user].pin = pin

\* django.contrib.auth.login: a session that belongs to another user is
\* flushed first, an anonymous one keeps its data.
auth_login(sess, user) ==
  IF sess.user /= None /\ sess.user /= user
  THEN [EmptySession EXCEPT !.user = user]
  ELSE [sess EXCEPT !.user = user]

create_otp_record_invalidating(user, otp_type, code) ==
  Append([i \in DOMAIN OTP |->
            IF OTP[i].user = user /\ OTP[i].otp_type = otp_type
            THEN [OTP[i] EXCEPT !.is_used = TRUE]
            ELSE OTP[i]],
         [user |-> user, otp_type |-> otp_type, code |-> code,
          created_at |-> now, expires_at |-> now + OTP_LIFETIME,
          is_used |-> FALSE])

\* OTP.objects.create(...) in create_otp_record; `code` is the random draw.
create_otp_record(user, otp_type, code) ==
  Append(OTP, [user |-> user, otp_type |-> otp_type, code |-> code,
               created_at |-> now, expires_at |-> now + OTP_LIFETIME,
               is_used |-> FALSE])

OTP_is_valid_noexpiry(i) == ~OTP[i].is_used

\* OTP.is_valid
OTP_is_valid(i) == ~OTP[i].is_used /\ now < OTP[i].expires_at

unused_otps_anyflag(user, code, otp_type) ==
  {i \in DOMAIN OTP : /\ OTP[i].user = user
                      /\ OTP[i].code = code
                      /\ OTP[i].otp_type = otp_type}

unused_otps_anytype(user, code, otp_type) ==
  {i \in DOMAIN OTP : /\ OTP[i].user = user
                      /\ OTP[i].code = code
                      /\ ~OTP[i].is_used}

\* The rows of OTP.objects.get(user=, code=, otp_type=, is_used=False): get
\* raises DoesNotExist on none and MultipleObjectsReturned on several.
unused_otps(user, code, otp_type) ==
  {i \in DOMAIN OTP : /\ OTP[i].user = user
                      /\ OTP[i].code = code
                      /\ OTP[i].otp_type = otp_type
                      /\ ~OTP[i].is_used}

\* The rows of OTP.objects.filter(user=, otp_type=, is_used=False) in
\* verify_otp.
unused_of_type(user, otp_type) ==
  {i \in DOMAIN OTP : /\ OTP[i].user = user
                      /\ OTP[i].otp_type = otp_type
                      /\ ~OTP[i].is_used}

\* .latest('created_at'): rows are inserted in creation order.
latest(rows) == CHOOSE i \in rows : \A j \in rows : j <= i

\* otp.is_used = True; otp.save()
mark_used(i) == [OTP EXCEPT ![i].is_used = TRUE]

\* ------------------------------------------------------------------ Init
InitCommon ==
  /\ now = 0
  /\ LoginHistory = <<>>
  /\ OTP = <<>>
  /\ session = [s \in Sessions |-> EmptySession]
  /\ pc = [s \in Sessions |-> "idle"]
  /\ req = [s \in Sessions |-> NoReq]
  /\ resp = Resp("init", None)

\* u1 has a PIN; u2 has none, and may be inactive or have no UserProfile row.
InitUser ==
  {[u \in Users |-> [password |-> "good",
                     is_active |-> IF u = "u2" THEN a ELSE TRUE]] :
     a \in BOOLEAN}

InitUserProfile ==
  {[u \in {"u1"} |-> UserProfileRow("1234")],
   [u \in Users |-> UserProfileRow(IF u = "u1" THEN "1234" ELSE NoPin)]}

InitSecuritySettings(maxes) ==
  {[u \in Users |-> SecuritySettingsRow(IF u = "u1" THEN m ELSE 2)] :
     m \in maxes}

Init ==
  /\ InitCommon
  /\ User \in InitUser
  /\ UserProfile \in InitUserProfile
  /\ SecuritySettings \in InitSecuritySettings({1, 2})

\* --------------------------------------------------------------- handlers
store_pending_global(s, user) ==
  [t \in Sessions |-> [session[t] EXCEPT !.pending_user_id = user,
                                         !.pending_auth = TRUE]]

\* request.session['pending_user_id'] = user.id;
\* request.session['pending_auth'] = True
store_pending(s, user) ==
  [session EXCEPT ![s].pending_user_id = user, ![s].pending_auth = TRUE]

\* Which branch of login_view a submission takes.
login_branch(email, password) ==
  LET user == authenticate(email, password) IN
  IF ~CustomAuthenticationForm_is_valid(email, password) THEN "FormInvalid"
  ELSE IF user = None THEN
         (IF email \in DOMAIN User THEN "InvalidPassword" ELSE "UserNotFound")
  ELSE IF ~User[user].is_active THEN "AccountInactive"
  ELSE IF check_login_attempts(user) THEN "TooManyAttempts"
  ELSE IF pin_required(user) THEN "AwaitingStepUp"
  ELSE IF user \notin DOMAIN UserProfile THEN "Fault"
  ELSE "Authenticated"

\* A submission with a wrong password for a known, active identity.
wrong_password(email, password) ==
  /\ email \in DOMAIN User
  /\ User[email].is_active
  /\ User[email].password /= password

\* Wrong-password submissions for `email` that precede this one with no other
\* transition in between.
streak_before(email) ==
  IF resp.op = "login" /\ resp.user = email THEN resp.streak ELSE 0

login_view(s, email, password) ==
  /\ pc[s] = "idle"
  /\ session[s].user = None
  /\ LET branch == login_branch(email, password) IN
     /\ LoginHistory' =
          CASE branch = "InvalidPassword" ->
                 log_login_attempt(email, FALSE, "Invalid password")
            [] branch = "UserNotFound" ->
                 log_login_attempt(None, FALSE, "User not found")
            [] branch = "AccountInactive" ->
                 log_login_attempt(email, FALSE, "Account inactive")
            [] branch = "TooManyAttempts" ->
                 log_login_attempt(email, FALSE, "Too many failed attempts")
            [] branch \in {"AwaitingStepUp", "Authenticated", "Fault"} ->
                 log_login_attempt(email, TRUE, None)
            [] OTHER -> LoginHistory
     /\ session' =
          CASE branch = "AwaitingStepUp" -> store_pending(s, email)
            [] branch = "Authenticated" ->
                 [session EXCEPT ![s] = auth_login(session[s], email)]
            [] branch = "Fault" ->
                 \* UserProfile.DoesNotExist at line 135, after login(): the
                 \* 500 response does not save the session, whose old key
                 \* cycle_key() has deleted.
                 [session EXCEPT ![s] = EmptySession]
            [] OTHER -> session
     /\ resp' =
          IF wrong_password(email, password)
          THEN [Resp("login", branch) EXCEPT
                  !.user = email,
                  !.streak = IF streak_before(email) < MaxStreak
                             THEN streak_before(email) + 1
                             ELSE MaxStreak]
          ELSE Resp("login", branch)
  /\ UNCHANGED <<now, User, UserProfile, SecuritySettings, OTP, pc, req>>

has_pending_marker_always(sess) == TRUE

\* `request.session.get('pending_auth')` and
\* `request.session.get('pending_user_id')` are both set.
has_pending_marker(sess) ==
  sess.pending_auth /\ sess.pending_user_id /= None

verify_pin_view(s, pin) ==
  /\ pc[s] = "idle"
  /\ LET user == session[s].pending_user_id
         flushed == session[s].user /= None /\ session[s].user /= user
     IN
     IF ~has_pending_marker(session[s])
     THEN \* redirect('accounts:login') before the PIN is read.
          /\ LoginHistory' = LoginHistory
          /\ session' = session
          /\ resp' = Resp("verify_pin", "RedirectLogin")
     ELSE
     IF validate_pin(user, pin)
     THEN /\ LoginHistory' = log_login_attempt(user, TRUE, None)
          /\ session' =
               IF flushed
               THEN \* login() flushed the other user's session, so
                    \* `del request.session['pending_user_id']` raises
                    \* KeyError; the 500 response does not save the session.
                    [session EXCEPT ![s] = EmptySession]
               ELSE [session EXCEPT
                       ![s] = [auth_login(session[s], user) EXCEPT
                                 !.pending_user_id = None,
                                 !.pending_auth = FALSE]]
          /\ resp' = Resp("verify_pin",
                          IF flushed THEN "Fault" ELSE "Authenticated")
     ELSE /\ LoginHistory' = log_login_attempt(user, FALSE, "Invalid PIN")
          /\ session' = session
          /\ resp' = Resp("verify_pin", "InvalidPin")
  /\ UNCHANGED <<now, User, UserProfile, SecuritySettings, OTP, pc, req>>

\* @login_required; logout() flushes the session.
logout_view(s) ==
  /\ pc[s] = "idle"
  /\ session[s].user /= None
  /\ session' = [session EXCEPT ![s] = EmptySession]
  /\ resp' = Resp("logout", "LoggedOut")
  /\ UNCHANGED <<now, User, UserProfile, SecuritySettings, LoginHistory, OTP,
                 pc, req>>

\* The clock.  A request in flight ends well within a minute, so the clock
\* moves between requests.
Tick(d, limit) ==
  /\ \A s \in Sessions : pc[s] = "idle"
  /\ now + d <= limit
  /\ now' = now + d
  /\ resp' = Resp("tick", None)
  /\ UNCHANGED <<User, UserProfile, SecuritySettings, LoginHistory, OTP,
                 session, pc, req>>

\* The redemption request of s, which was given `code`, ends with `outcome`.
Done(s, op, outcome, code) ==
  /\ pc' = [pc EXCEPT ![s] = "idle"]
  /\ req' = [req EXCEPT ![s] = NoReq]
  /\ resp' = [Resp(op, outcome) EXCEPT !.code = code]

\* forgot_pin_view: ForgotPINForm accepts the e-mail of an existing user; the
\* OTP row is created before the mail is sent, and mail_ok is the result of
\* send_email_template.
forgot_pin_view(s, email, code, mail_ok) ==
  /\ pc[s] = "idle"
  /\ session[s].user = None
  /\ email \in DOMAIN User
  /\ OTP' = create_otp_record(email, "pin_reset", code)
  /\ session' = IF mail_ok
                THEN [session EXCEPT ![s].reset_user_id = email]
                ELSE session
  /\ resp' = Resp("forgot_pin", IF mail_ok THEN "OtpSent" ELSE "MailFailed")
  /\ UNCHANGED <<now, User, UserProfile, SecuritySettings, LoginHistory,
                 pc, req>>

\* reset_pin_view, POST, up to form.is_valid(): ResetPINForm.clean.  The
\* confirmation field repeats new_pin.
reset_pin_clean(s, otp, new_pin) ==
  /\ pc[s] = "idle"
  /\ session[s].user = None
  /\ session[s].reset_user_id /= None
  /\ LET user == session[s].reset_user_id
         rows == unused_otps(user, otp, "pin_reset")
     IN
     IF Cardinality(rows) = 0
     THEN Done(s, "reset_pin", "InvalidOtp", otp)
     ELSE IF Cardinality(rows) > 1
     THEN Done(s, "reset_pin", "Fault", otp)
     ELSE IF ~OTP_is_valid(latest(rows))
     THEN Done(s, "reset_pin", "OtpExpired", otp)
     ELSE /\ pc' = [pc EXCEPT ![s] = "reset_clean"]
          /\ req' = [req EXCEPT ![s] = [user |-> user, code |-> otp,
                                        new_pin |-> new_pin, otp |-> 0]]
          /\ resp' = Resp("reset_pin", "InFlight")
  /\ UNCHANGED <<now, User, UserProfile, SecuritySettings, LoginHistory, OTP,
                 session>>

\* reset_pin_view, lines 284-289: OTP.objects.get, outside any try.
reset_pin_get(s) ==
  /\ pc[s] = "reset_clean"
  /\ LET rows == unused_otps(req[s].user, req[s].code, "pin_reset") IN
     IF Cardinality(rows) /= 1
     THEN Done(s, "reset_pin", "Fault", req[s].code)
     ELSE /\ pc' = [pc EXCEPT ![s] = "reset_got"]
          /\ req' = [req EXCEPT ![s].otp = latest(rows)]
          /\ resp' = Resp("reset_pin", "InFlight")
  /\ UNCHANGED <<now, User, UserProfile, SecuritySettings, LoginHistory, OTP,
                 session>>

\* reset_pin_view, lines 290-291.
reset_pin_save_otp(s) ==
  /\ pc[s] = "reset_got"
  /\ OTP' = mark_used(req[s].otp)
  /\ pc' = [pc EXCEPT ![s] = "reset_otp_saved"]
  /\ resp' = Resp("reset_pin", "InFlight")
  /\ UNCHANGED <<now, User, UserProfile, SecuritySettings, LoginHistory,
                 session, req>>

\* reset_pin_view, lines 293-302.
reset_pin_save_profile(s) ==
  /\ pc[s] = "reset_otp_saved"
  /\ IF req[s].user \in DOMAIN UserProfile
     THEN /\ UserProfile' =
               [UserProfile EXCEPT ![req[s].user].pin = req[s].new_pin]
          /\ session' = [session EXCEPT ![s].reset_user_id = None]
          /\ Done(s, "reset_pin", "PinReset", req[s].code)
     ELSE /\ UNCHANGED <<UserProfile, session>>
          /\ Done(s, "reset_pin", "Fault", req[s].code)
  /\ UNCHANGED <<now, User, SecuritySettings, LoginHistory, OTP>>

\* api_send_verification_email, @login_required.
api_send_verification_email(s, code, mail_ok) ==
  /\ pc[s] = "idle"
  /\ session[s].user /= None
  /\ OTP' = create_otp_record(session[s].user, "email_verification", code)
  /\ resp' = Resp("send_verification",
                  IF mail_ok THEN "OtpSent" ELSE "MailFailed")
  /\ UNCHANGED <<now, User, UserProfile, SecuritySettings, LoginHistory,
                 session, pc, req>>

\* api_verify_email, lines 413-422: the get and the validity test.
api_verify_email_get(s, otp_code) ==
  /\ pc[s] = "idle"
  /\ session[s].user /= None
  /\ LET user == session[s].user
         rows == unused_otps(user, otp_code, "email_verification")
     IN
     IF Cardinality(rows) = 0
     THEN Done(s, "verify_email", "InvalidOtp", otp_code)
     ELSE IF Cardinality(rows) > 1
     THEN Done(s, "verify_email", "Fault", otp_code)
     ELSE IF ~OTP_is_valid(latest(rows))
     THEN Done(s, "verify_email", "OtpExpired", otp_code)
     ELSE /\ pc' = [pc EXCEPT ![s] = "verify_got"]
          /\ req' = [req EXCEPT ![s] = [user |-> user, code |-> otp_code,
                                        new_pin |-> None,
                                        otp |-> latest(rows)]]
          /\ resp' = Resp("verify_email", "InFlight")
  /\ UNCHANGED <<now, User, UserProfile, SecuritySettings, LoginHistory, OTP,
                 session>>

\* api_verify_email, lines 423-424.
api_verify_email_save_otp(s) ==
  /\ pc[s] = "verify_got"
  /\ OTP' = mark_used(req[s].otp)
  /\ pc' = [pc EXCEPT ![s] = "verify_otp_saved"]
  /\ resp' = Resp("verify_email", "InFlight")
  /\ UNCHANGED <<now, User, UserProfile, SecuritySettings, LoginHistory,
                 session, req>>

\* api_verify_email, lines 426-430.
api_verify_email_save_profile(s) ==
  /\ pc[s] = "verify_otp_saved"
  /\ IF req[s].user \in DOMAIN UserProfile
     THEN /\ UserProfile' =
               [UserProfile EXCEPT ![req[s].user].email_verified = TRUE]
          /\ Done(s, "verify_email", "EmailVerified", req[s].code)
     ELSE /\ UNCHANGED UserProfile
          /\ Done(s, "verify_email", "Fault", req[s].code)
  /\ UNCHANGED <<now, User, SecuritySettings, LoginHistory, OTP, session>>

\* verify_otp, lines 39-46 and 50-52: the query and the test.  No view calls
\* verify_otp; s is the caller.
verify_otp_check(s, user, code, otp_type) ==
  /\ pc[s] = "idle"
  /\ LET rows == unused_of_type(user, otp_type) IN
     IF rows = {} THEN Done(s, "verify_otp", "False", code)
     ELSE IF /\ OTP[latest(rows)].code = code
             /\ OTP_is_valid(latest(rows))
          THEN /\ pc' = [pc EXCEPT ![s] = "votp_checked"]
               /\ req' = [req EXCEPT ![s] = [user |-> user, code |-> code,
                                             new_pin |-> None,
                                             otp |-> latest(rows)]]
               /\ resp' = Resp("verify_otp", "InFlight")
     ELSE Done(s, "verify_otp", "False", code)
  /\ UNCHANGED <<now, User, UserProfile, SecuritySettings, LoginHistory, OTP,
                 session>>

\* verify_otp, lines 47-49.
verify_otp_save(s) ==
  /\ pc[s] = "votp_checked"
  /\ OTP' = mark_used(req[s].otp)
  /\ Done(s, "verify_otp", "True", req[s].code)
  /\ UNCHANGED <<now, User, UserProfile, SecuritySettings, LoginHistory,
                 session>>

\* The table `rows` with the row `row` for `user` added.
create_row(rows, user, row) ==
  [u \in DOMAIN rows \cup {user} |-> IF u = user THEN row ELSE rows[u]]

\* register_view, POST.  InstitutionRegistrationForm.clean refuses an e-mail
\* that a user already has; the confirmation fields repeat password and pin.
\* post_save_connected: whether create_user_related_objects (signals.py) is
\* registered, which the app configuration decides when it imports
\* accounts.signals (the configuration is not among the sources).  The view
\* reads `pin` from the form and does not use it.
register_view(s, email, password, pin, post_save_connected) ==
  /\ pc[s] = "idle"
  /\ session[s].user = None
  /\ IF email \in DOMAIN User
     THEN /\ resp' = [Resp("register", "Invalid") EXCEPT !.user = email]
          /\ UNCHANGED <<User, UserProfile, SecuritySettings, session>>
     ELSE /\ User' = create_row(User, email,
                                [password |-> password, is_active |-> TRUE])
          /\ SecuritySettings' =
               create_row(SecuritySettings, email,
                          SecuritySettingsRow(DEFAULT_MAX_LOGIN_ATTEMPTS))
          /\ IF post_save_connected
             THEN \* the signal has created both rows, so
                  \* SecuritySettings.objects.create at line 215 violates
                  \* the one-to-one constraint: IntegrityError, uncaught;
                  \* the rows saved so far stay (autocommit).
                  /\ UserProfile' =
                       create_row(UserProfile, email, UserProfileRow(NoPin))
                  /\ session' = session
                  /\ resp' = [Resp("register", "Fault") EXCEPT !.user = email]
             ELSE /\ UserProfile' = UserProfile
                  /\ session' =
                       [session EXCEPT ![s] = auth_login(session[s], email)]
                  /\ resp' =
                       [Resp("register", "Registered") EXCEPT !.user = email]
  /\ UNCHANGED <<now, LoginHistory, OTP, pc, req>>

\* SecuritySettingsForm.clean_session_timeout, reached only when the field
\* parsed (not blank): whether session_timeout stays in cleaned_data.
clean_session_timeout(blank, session_timeout) ==
  /\ ~blank
  /\ ~(session_timeout < SESSION_TIMEOUT_MIN
         \/ session_timeout > SESSION_TIMEOUT_MAX)

\* SecuritySettingsForm.clean_max_login_attempts.
clean_max_login_attempts(max_login_attempts) ==
  ~(max_login_attempts < MAX_LOGIN_ATTEMPTS_MIN
      \/ max_login_attempts > MAX_LOGIN_ATTEMPTS_MAX)

SecuritySettingsForm_clean_nofloor(two_factor_enabled, has_timeout, session_timeout) ==
  IF two_factor_enabled /\ ~has_timeout THEN "TypeError" ELSE "ok"

\* SecuritySettingsForm.clean.  When the field was rejected,
\* cleaned_data.get('session_timeout') is None and `None < 15` raises
\* TypeError, which is not a ValidationError and leaves the view uncaught.
SecuritySettingsForm_clean(two_factor_enabled, has_timeout, session_timeout) ==
  IF two_factor_enabled /\ ~has_timeout THEN "TypeError"
  ELSE IF two_factor_enabled /\ session_timeout < TWO_FACTOR_TIMEOUT_FLOOR
  THEN "add_error"
  ELSE "ok"

\* security_settings_view, POST, @login_required.
security_settings_view(s, two_factor_enabled, blank, session_timeout, max_login_attempts) ==
  /\ pc[s] = "idle"
  /\ session[s].user /= None
  /\ LET user == session[s].user
         has_timeout == clean_session_timeout(blank, session_timeout)
         has_max == clean_max_login_attempts(max_login_attempts)
         form == SecuritySettingsForm_clean(two_factor_enabled, has_timeout,
                                            session_timeout)
         outcome == IF form = "TypeError" THEN "Fault"
                    ELSE IF form = "add_error" THEN "TimeoutBelowFloor"
                    ELSE IF ~has_timeout \/ ~has_max THEN "Invalid"
                    ELSE "Saved"
     IN
     /\ SecuritySettings' =
          IF outcome = "Saved"
          THEN [SecuritySettings EXCEPT
                  ![user] = [two_factor_enabled |-> two_factor_enabled,
                             session_timeout |-> session_timeout,
                             max_login_attempts |-> max_login_attempts]]
          ELSE SecuritySettings
     /\ resp' = [Resp("security_settings", outcome) EXCEPT !.user = user]
  /\ UNCHANGED <<now, User, UserProfile, LoginHistory, OTP, session, pc, req>>

\* --------------------------------------------------------- specifications
\* The login flow.
Next ==
  \/ /\ Len(LoginHistory) < MaxJournal
     /\ \E s \in Sessions, e \in Identities, p \in Passwords :
          login_view(s, e, p)
  \/ /\ Len(LoginHistory) < MaxJournal
     /\ \E s \in Sessions, p \in Pins : verify_pin_view(s, p)
  \/ \E s \in Sessions : logout_view(s)
  \/ \E d \in AdvanceSteps : Tick(d, MaxTime)

Spec == Init /\ [][Next]_vars

\* The OTP ledger: issue and the three redemption paths.  u1 has a profile
\* and u2 has none; a session starts anonymous or signed in as u1 (as
\* register_view leaves it, with nothing journaled).
InitOtp ==
  /\ now = 0
  /\ LoginHistory = <<>>
  /\ OTP = <<>>
  /\ session \in [Sessions -> {EmptySession,
                               [EmptySession EXCEPT !.user = "u1"]}]
  /\ pc = [s \in Sessions |-> "idle"]
  /\ req = [s \in Sessions |-> NoReq]
  /\ resp = Resp("init", None)
  /\ User = [u \in Users |-> [password |-> "good", is_active |-> TRUE]]
  /\ UserProfile = [u \in {"u1"} |-> UserProfileRow("1234")]
  /\ SecuritySettings \in InitSecuritySettings({DEFAULT_MAX_LOGIN_ATTEMPTS})

NextOtp ==
  \/ \E s \in Sessions : logout_view(s)
  \/ Tick(OTP_LIFETIME, MaxTimeOtp)
  \/ /\ Len(OTP) < MaxOtps
     /\ \E s \in Sessions, e \in Users, c \in Codes, m \in BOOLEAN :
          forgot_pin_view(s, e, c, m)
  \/ \E s \in Sessions, c \in Codes, p \in Pins : reset_pin_clean(s, c, p)
  \/ \E s \in Sessions : reset_pin_get(s)
  \/ \E s \in Sessions : reset_pin_save_otp(s)
  \/ \E s \in Sessions : reset_pin_save_profile(s)
  \/ /\ Len(OTP) < MaxOtps
     /\ \E s \in Sessions, c \in Codes, m \in BOOLEAN :
          api_send_verification_email(s, c, m)
  \/ \E s \in Sessions, c \in Codes : api_verify_email_get(s, c)
  \/ \E s \in Sessions : api_verify_email_save_otp(s)
  \/ \E s \in Sessions : api_verify_email_save_profile(s)
  \/ \E s \in Sessions, u \in Users, c \in Codes, t \in OtpTypes :
       verify_otp_check(s, u, c, t)
  \/ \E s \in Sessions : verify_otp_save(s)

SpecOtp == InitOtp /\ [][NextOtp]_vars

\* The login flow and the one-time codes together: one credential with a
\* PIN, two sessions.
InitJournal ==
  /\ InitCommon
  /\ User = [u \in Users |-> [password |-> "good", is_active |-> TRUE]]
  /\ UserProfile = [u \in {"u1"} |-> UserProfileRow("1234")]
  /\ SecuritySettings \in InitSecuritySettings({2})

NextJournal ==
  \/ /\ Len(LoginHistory) < MaxJournalAll
     /\ \E s \in Sessions, p \in Passwords : login_view(s, "u1", p)
  \/ /\ Len(LoginHistory) < MaxJournalAll
     /\ \E s \in Sessions, p \in Pins : verify_pin_view(s, p)
  \/ \E s \in Sessions : logout_view(s)
  \/ Tick(OTP_LIFETIME, MaxTimeOtp)
  \/ /\ Len(OTP) < MaxOtpsAll
     /\ \E s \in Sessions, c \in Codes, m \in BOOLEAN :
          forgot_pin_view(s, "u1", c, m)
  \/ \E s \in Sessions, c \in Codes, p \in Pins : reset_pin_clean(s, c, p)
  \/ \E s \in Sessions : reset_pin_get(s)
  \/ \E s \in Sessions : reset_pin_save_otp(s)
  \/ \E s \in Sessions : reset_pin_save_profile(s)
  \/ /\ Len(OTP) < MaxOtpsAll
     /\ \E s \in Sessions, c \in Codes, m \in BOOLEAN :
          api_send_verification_email(s, c, m)
  \/ \E s \in Sessions, c \in Codes : api_verify_email_get(s, c)
  \/ \E s \in Sessions : api_verify_email_save_otp(s)
  \/ \E s \in Sessions : api_verify_email_save_profile(s)

SpecJournal == InitJournal /\ [][NextJournal]_vars

\* Two credentials with PINs that keep submitting in one session, at
\* intervals shorter than the lockout window.
InitExtend ==
  /\ InitCommon
  /\ User = [u \in Users |-> [password |-> "good", is_active |-> TRUE]]
  /\ UserProfile =
       [u \in Users |-> UserProfileRow(IF u = "u1" THEN "1234" ELSE "4321")]
  /\ SecuritySettings \in InitSecuritySettings({1, 2})

NextExtend ==
  \/ /\ Len(LoginHistory) < MaxJournalExtend
     /\ \E e \in Users : login_view("s1", e, "good")
  \/ /\ Len(LoginHistory) < MaxJournalExtend
     /\ \E p \in Pins : verify_pin_view("s1", p)
  \/ logout_view("s1")
  \/ \E d \in ExtendSteps : Tick(d, MaxTimeExtend)

SpecExtend == InitExtend /\ [][NextExtend]_vars

\* One credential with a PIN and the default max_login_attempts, in one
\* session.
InitLockout ==
  /\ InitCommon
  /\ User = [u \in Users |-> [password |-> "good", is_active |-> TRUE]]
  /\ UserProfile = [u \in {"u1"} |-> UserProfileRow("1234")]
  /\ SecuritySettings \in InitSecuritySettings({DEFAULT_MAX_LOGIN_ATTEMPTS})

NextLockout ==
  \/ /\ Len(LoginHistory) < MaxJournalLockout
     /\ login_view("s1", "u1", "good")
  \/ /\ Len(LoginHistory) < MaxJournalLockout
     /\ \E p \in Pins : verify_pin_view("s1", p)
  \/ logout_view("s1")
  \/ \E d \in AdvanceSteps : Tick(d, MaxTime)

SpecLockout == InitLockout /\ [][NextLockout]_vars

\* The security policy: two users, each signed in in a session of their own
\* (as register_view leaves them), with the default policy.
InitPolicy ==
  /\ now = 0
  /\ LoginHistory = <<>>
  /\ OTP = <<>>
  /\ session = [s \in Sessions |->
                  [EmptySession EXCEPT
                     !.user = IF s = "s1" THEN "u1" ELSE "u2"]]
  /\ pc = [s \in Sessions |-> "idle"]
  /\ req = [s \in Sessions |-> NoReq]
  /\ resp = Resp("init", None)
  /\ User = [u \in Users |-> [password |-> "good", is_active |-> TRUE]]
  /\ UserProfile = [u \in Users |-> UserProfileRow("1234")]
  /\ SecuritySettings =
       [u \in Users |-> SecuritySettingsRow(DEFAULT_MAX_LOGIN_ATTEMPTS)]

NextPolicy ==
  \/ \E s \in Sessions, tf \in BOOLEAN, b \in BOOLEAN,
        t \in SubmittedTimeouts, m \in SubmittedAttempts :
       security_settings_view(s, tf, b, t, m)
  \/ \E s \in Sessions : logout_view(s)

SpecPolicy == InitPolicy /\ [][NextPolicy]_vars

\* Registration: the tables start empty and every account is made by
\* register_view.  One build either registers the signal or does not, so a
\* registration goes the way the earlier ones went.
InitRegister ==
  /\ now = 0
  /\ LoginHistory = <<>>
  /\ OTP = <<>>
  /\ session = [s \in Sessions |-> EmptySession]
  /\ pc = [s \in Sessions |-> "idle"]
  /\ req = [s \in Sessions |-> NoReq]
  /\ resp = Resp("init", None)
  /\ User = [u \in {} |-> None]
  /\ UserProfile = [u \in {} |-> None]
  /\ SecuritySettings = [u \in {} |-> None]

NextRegister ==
  \/ \E s \in Sessions, e \in Users, p \in Passwords, pin \in Pins,
        c \in BOOLEAN :
       /\ \A u \in DOMAIN User : (u \in DOMAIN UserProfile) = c
       /\ register_view(s, e, p, pin, c)
  \/ /\ Len(LoginHistory) < MaxJournal
     /\ \E s \in Sessions, e \in Identities, p \in Passwords :
          login_view(s, e, p)
  \/ \E s \in Sessions : logout_view(s)

SpecRegister == InitRegister /\ [][NextRegister]_vars

\* ------------------------------------------------------------- the claims
\* What the specification calls countRecentFailures(credential, 30 min), read
\* off the journal.
RecentFailures(u) ==
  Cardinality({i \in DOMAIN LoginHistory :
                 /\ LoginHistory[i].user = u
                 /\ LoginHistory[i].success = FALSE
                 /\ now - LoginHistory[i].login_time <= 30})

LockedOut(u) == RecentFailures(u) >= SecuritySettings[u].max_login_attempts

CorrectPassword(e, p) == e \in DOMAIN User /\ User[e].password = p

HasPin(u) == u \in DOMAIN UserProfile /\ UserProfile[u].pin /= NoPin

HasEmptyPin(u) == u \in DOMAIN UserProfile /\ UserProfile[u].pin = NoPin

Entry(u, t, ok, reason) ==
  [user |-> u, login_time |-> t, success |-> ok, failure_reason |-> reason]

Last(seq) == seq[Len(seq)]

\* C1: for a credential whose Profile has a PIN, a login submission with the
\* correct password never establishes a session; when the submission reaches
\* the PIN test (the credential is active and not locked out) it yields
\* AwaitingStepUp with the pending marker set; and a session becomes
\* authenticated as such a credential only by a step-up submission that
\* carries the credential's PIN.
C1_PinRequiresStepUp ==
  [][/\ \A s \in Sessions, e \in Users, p \in Passwords :
          (login_view(s, e, p) /\ CorrectPassword(e, p) /\ HasPin(e))
            => /\ session'[s].user = None
               /\ (User[e].is_active /\ ~LockedOut(e))
                    => /\ resp'.outcome = "AwaitingStepUp"
                       /\ session'[s].pending_auth
                       /\ session'[s].pending_user_id = e
     /\ \A s \in Sessions :
          (/\ session'[s].user /= session[s].user
           /\ session'[s].user \in Users
           /\ HasPin(session'[s].user))
            => /\ session[s].pending_auth
               /\ session[s].pending_user_id = session'[s].user
               /\ verify_pin_view(s, UserProfile[session'[s].user].pin)
               /\ resp'.outcome = "Authenticated"]_vars

C1_Witness ==
  /\ resp.op = "verify_pin"
  /\ resp.outcome = "Authenticated"
  /\ \E s \in Sessions : session[s].user = "u1" /\ HasPin("u1")

\* C2: for an active, not-locked-out credential whose Profile has an empty
\* PIN, a login submission with the correct password ends in Authenticated
\* and appends exactly one journal entry, a success entry.
C2_NoPinAuthenticates ==
  [][\A s \in Sessions, e \in Users, p \in Passwords :
       (/\ login_view(s, e, p)
        /\ CorrectPassword(e, p)
        /\ User[e].is_active
        /\ ~LockedOut(e)
        /\ HasEmptyPin(e))
         => /\ resp'.outcome = "Authenticated"
            /\ session'[s].user = e
            /\ LoginHistory' = Append(LoginHistory, Entry(e, now, TRUE, None))
    ]_vars

C2_Witness ==
  /\ resp.op = "login"
  /\ resp.outcome = "Authenticated"
  /\ HasEmptyPin("u2")
  /\ \E s \in Sessions : session[s].user = "u2"
  /\ Last(LoginHistory) = Entry("u2", now, TRUE, None)

\* C3: whenever the failure entries of an active credential within the last
\* 30 minutes number at least its max_login_attempts, a login submission with
\* the correct password returns TooManyAttempts: it appends one failure entry
\* "Too many failed attempts" and leaves the session as it was (no session
\* established, no pending marker set).
C3_LockedOutRejected ==
  [][\A s \in Sessions, e \in Users, p \in Passwords :
       (/\ login_view(s, e, p)
        /\ CorrectPassword(e, p)
        /\ User[e].is_active
        /\ LockedOut(e))
         => /\ resp'.outcome = "TooManyAttempts"
            /\ LoginHistory' =
                 Append(LoginHistory,
                        Entry(e, now, FALSE, "Too many failed attempts"))
            /\ session' = session
    ]_vars

C3_Witness ==
  /\ resp.op = "login"
  /\ resp.outcome = "TooManyAttempts"
  /\ Len(LoginHistory) > SecuritySettings["u1"].max_login_attempts
  /\ Last(LoginHistory) = Entry("u1", now, FALSE, "Too many failed attempts")
  /\ \E s \in Sessions : session[s].user = None

Failures(u) ==
  {i \in DOMAIN LoginHistory :
     LoginHistory[i].user = u /\ LoginHistory[i].success = FALSE}

LetIn == {"Authenticated", "AwaitingStepUp"}

\* C4 (as claimed): with max_login_attempts = 5 and exactly four failed
\* attempts recorded within 30 minutes, the next attempt with the correct
\* password returns TooManyAttempts.
C4_FourFailuresLockOut ==
  [][\A s \in Sessions, e \in Users, p \in Passwords :
       (/\ login_view(s, e, p)
        /\ CorrectPassword(e, p)
        /\ User[e].is_active
        /\ SecuritySettings[e].max_login_attempts = 5
        /\ RecentFailures(e) = 4)
         => resp'.outcome = "TooManyAttempts"
    ]_vars

\* C4 (amended): with max_login_attempts = 5, an attempt with the correct
\* password is let in while exactly four failures lie within the last 30
\* minutes and returns TooManyAttempts once five do; an attempt made 31
\* minutes or more after the first of at most five failures is let in.
C4_FiveFailuresLockOut ==
  [][\A s \in Sessions, e \in Users, p \in Passwords :
       (/\ login_view(s, e, p)
        /\ CorrectPassword(e, p)
        /\ User[e].is_active
        /\ e \in DOMAIN UserProfile
        /\ SecuritySettings[e].max_login_attempts = 5)
         => /\ RecentFailures(e) = 4 => resp'.outcome \in LetIn
            /\ RecentFailures(e) = 5 => resp'.outcome = "TooManyAttempts"
            /\ (/\ Failures(e) /= {}
                /\ Cardinality(Failures(e)) <= 5
                /\ \E i \in Failures(e) :
                     now - LoginHistory[i].login_time >= 31)
                 => resp'.outcome \in LetIn
    ]_vars

\* The fifth attempt, made with four failures in the window, was let in.
C4_Witness ==
  /\ resp.op = "login"
  /\ resp.outcome = "AwaitingStepUp"
  /\ SecuritySettings["u1"].max_login_attempts = 5
  /\ RecentFailures("u1") = 4
  /\ Last(LoginHistory) = Entry("u1", now, TRUE, None)

\* The sixth attempt, made with five failures in the window, was locked out.
C4_LockedAtFive ==
  /\ resp.outcome = "TooManyAttempts"
  /\ SecuritySettings["u1"].max_login_attempts = 5
  /\ RecentFailures("u1") = 6

\* Five failures, the first of them 31 minutes old, and the attempt let in.
C4_AgedOut ==
  /\ resp.op = "login"
  /\ resp.outcome = "AwaitingStepUp"
  /\ Cardinality(Failures("u1")) = 5
  /\ \E i \in Failures("u1") : now - LoginHistory[i].login_time >= 31

\* C5 (as claimed): after max_login_attempts consecutive wrong-password
\* submissions for a known, active identity, all at one clock reading, the
\* next submission with the correct password returns TooManyAttempts.
C5_WrongPasswordsLockOut ==
  [][\A s \in Sessions, e \in Users, p \in Passwords :
       (/\ login_view(s, e, p)
        /\ CorrectPassword(e, p)
        /\ User[e].is_active
        /\ streak_before(e) >= SecuritySettings[e].max_login_attempts)
         => resp'.outcome = "TooManyAttempts"
    ]_vars

\* C6: the lockout is a sliding window.  Once every failure entry of an
\* active credential is older than 30 minutes, a login submission with the
\* correct password is not rejected as TooManyAttempts; it reaches
\* Authenticated or AwaitingStepUp.
C6_WindowAgesOut ==
  [][\A s \in Sessions, e \in Users, p \in Passwords :
       (/\ login_view(s, e, p)
        /\ CorrectPassword(e, p)
        /\ User[e].is_active
        /\ e \in DOMAIN UserProfile
        /\ \A i \in DOMAIN LoginHistory :
             (LoginHistory[i].user = e /\ ~LoginHistory[i].success)
               => now - LoginHistory[i].login_time > 30)
         => /\ resp'.outcome \in {"Authenticated", "AwaitingStepUp"}
            /\ Last(LoginHistory').success
    ]_vars

\* The credential was locked out, its failures aged out, and it is let in.
C6_Witness ==
  /\ resp.op = "login"
  /\ resp.outcome = "AwaitingStepUp"
  /\ \E i \in DOMAIN LoginHistory :
       /\ LoginHistory[i] = Entry("u1", LoginHistory[i].login_time, FALSE,
                                  "Too many failed attempts")
       /\ now - LoginHistory[i].login_time > 30
  /\ Last(LoginHistory) = Entry("u1", now, TRUE, None)

\* Record i was issued to u for purpose t with code c.
Matches(i, u, t, c) ==
  OTP[i].user = u /\ OTP[i].otp_type = t /\ OTP[i].code = c

\* The OTP records issued to u for purpose t with code c.
Matching(u, t, c) == {i \in DOMAIN OTP : Matches(i, u, t, c)}

\* Every record that carries the code has been redeemed.
Replayed(u, t, c) ==
  /\ \E i \in DOMAIN OTP : Matches(i, u, t, c)
  /\ \A i \in DOMAIN OTP : Matches(i, u, t, c) => OTP[i].is_used

\* Every record that carries the code is past its expiry.
Expired(u, t, c) ==
  /\ \E i \in DOMAIN OTP : Matches(i, u, t, c)
  /\ \A i \in DOMAIN OTP :
       Matches(i, u, t, c) => now >= OTP[i].created_at + 10

\* This step is the first step of a request `op` of session s.
Begins(s, op) == pc[s] = "idle" /\ resp'.op = op

\* The request of s ends in this step, with one of `outcomes`, changing no
\* table.
FailsWith(s, outcomes) ==
  /\ pc'[s] = "idle"
  /\ resp'.outcome \in outcomes
  /\ OTP' = OTP
  /\ UserProfile' = UserProfile

\* C7: a redeemed OTP record is never redeemable again.  Its used flag never
\* returns to false and the record is never deleted; no redemption fetches a
\* record whose used flag is set; and a redemption begun with a code whose
\* records are all used fails and changes nothing, even before their expiry,
\* on each path (reset_pin_view form and view, api_verify_email, verify_otp).
C7_UsedIsTerminal ==
  [][/\ \A i \in DOMAIN OTP :
          i \in DOMAIN OTP' /\ (OTP[i].is_used => OTP'[i].is_used)
     /\ \A s \in Sessions :
          (req'[s].otp /= 0 /\ req'[s].otp /= req[s].otp)
            => ~OTP[req'[s].otp].is_used
     /\ \A s \in Sessions, c \in Codes, p \in Pins :
          (/\ Begins(s, "reset_pin")
           /\ Replayed(session[s].reset_user_id, "pin_reset", c)
           /\ reset_pin_clean(s, c, p))
            => FailsWith(s, {"InvalidOtp"})
     /\ \A s \in Sessions :
          (/\ pc[s] = "reset_clean"
           /\ Replayed(req[s].user, "pin_reset", req[s].code)
           /\ reset_pin_get(s))
            => FailsWith(s, {"Fault"})
     /\ \A s \in Sessions, c \in Codes :
          (/\ Begins(s, "verify_email")
           /\ Replayed(session[s].user, "email_verification", c)
           /\ api_verify_email_get(s, c))
            => FailsWith(s, {"InvalidOtp"})
     /\ \A s \in Sessions, u \in Users, c \in Codes, t \in OtpTypes :
          (/\ Begins(s, "verify_otp")
           /\ Replayed(u, t, c)
           /\ verify_otp_check(s, u, c, t))
            => FailsWith(s, {"False"})
    ]_vars

\* A pin_reset code was replayed before its expiry and refused.
C7_Witness ==
  /\ resp.op = "reset_pin"
  /\ resp.outcome = "InvalidOtp"
  /\ \E u \in Users :
       /\ Replayed(u, "pin_reset", resp.code)
       /\ \A i \in Matching(u, "pin_reset", resp.code) :
            now < OTP[i].expires_at
       /\ \E s \in Sessions : session[s].reset_user_id = u

\* C8: redemption fails whenever now >= the record's expiry (creation + 10
\* minutes), whatever the used flag and even with the right code.  No record
\* is marked used at or after its expiry; a redemption begun with a code
\* whose records are all expired fails and leaves the records and the
\* Profile unchanged; a Profile is written only for an unexpired record.
C8_ExpiredFails ==
  [][/\ \A i \in DOMAIN OTP :
          (~OTP[i].is_used /\ OTP'[i].is_used)
            => now < OTP[i].created_at + 10
     /\ \A s \in Sessions, c \in Codes, p \in Pins :
          (/\ Begins(s, "reset_pin")
           /\ Expired(session[s].reset_user_id, "pin_reset", c)
           /\ reset_pin_clean(s, c, p))
            => FailsWith(s, {"OtpExpired", "InvalidOtp", "Fault"})
     /\ \A s \in Sessions, c \in Codes :
          (/\ Begins(s, "verify_email")
           /\ Expired(session[s].user, "email_verification", c)
           /\ api_verify_email_get(s, c))
            => FailsWith(s, {"OtpExpired", "InvalidOtp", "Fault"})
     /\ \A s \in Sessions, u \in Users, c \in Codes, t \in OtpTypes :
          (/\ Begins(s, "verify_otp")
           /\ Expired(u, t, c)
           /\ verify_otp_check(s, u, c, t))
            => FailsWith(s, {"False"})
     /\ \A s \in Sessions :
          (UserProfile' /= UserProfile /\ req[s].otp /= 0 /\ pc'[s] /= pc[s])
            => now < OTP[req[s].otp].created_at + 10
    ]_vars

\* The right pin_reset code, never used, was refused at its expiry.
C8_Witness ==
  /\ resp.op = "reset_pin"
  /\ resp.outcome = "OtpExpired"
  /\ \E i \in DOMAIN OTP :
       /\ OTP[i].code = resp.code
       /\ OTP[i].otp_type = "pin_reset"
       /\ ~OTP[i].is_used
       /\ now >= OTP[i].created_at + 10
       /\ \E s \in Sessions : session[s].reset_user_id = OTP[i].user

\* C9 (as claimed): redemption is atomic.  The write that sets used = true
\* finds the record still unused, so of two attempts that interleave on one
\* record at most one succeeds.
C9_RedemptionAtomic ==
  [][\A s \in Sessions :
       (reset_pin_save_otp(s) \/ api_verify_email_save_otp(s)
          \/ verify_otp_save(s))
         => ~OTP[req[s].otp].is_used
    ]_vars

\* C10 (as claimed): a reset submission that ends has either marked its OTP
\* used and set Profile.pin to the submitted PIN, or done neither.
C10_ResetAllOrNothing ==
  [][/\ \A s \in Sessions, c \in Codes, p \in Pins :
          (reset_pin_clean(s, c, p) /\ pc'[s] = "idle")
            => (OTP' = OTP /\ UserProfile' = UserProfile)
     /\ \A s \in Sessions :
          (/\ pc[s] \in {"reset_clean", "reset_got", "reset_otp_saved"}
           /\ pc'[s] = "idle")
            => IF req[s].otp /= 0 /\ OTP'[req[s].otp].is_used
               THEN /\ req[s].user \in DOMAIN UserProfile'
                    /\ UserProfile'[req[s].user].pin = req[s].new_pin
               ELSE UserProfile' = UserProfile
    ]_vars

\* The code c belongs to an older record of (u, t) that is unused and
\* unexpired, while the most recently created unused record of (u, t) carries
\* another code.
StaleCode(u, t, c) ==
  /\ unused_of_type(u, t) /= {}
  /\ OTP[latest(unused_of_type(u, t))].code /= c
  /\ \E i \in unused_of_type(u, t) :
       OTP[i].code = c /\ now < OTP[i].created_at + 10

\* C11 (as claimed): redemption considers only the most recently created
\* unused record of (credential, purpose).  On every path (reset_pin_view,
\* api_verify_email, verify_otp) a redemption given the code of an older
\* unused, unexpired record, while a newer unused record exists, fails and
\* marks no record used.
C11_OnlyLatestRedeems ==
  [][/\ \A s \in Sessions, c \in Codes, p \in Pins :
          (/\ Begins(s, "reset_pin")
           /\ StaleCode(session[s].reset_user_id, "pin_reset", c)
           /\ reset_pin_clean(s, c, p))
            => FailsWith(s, {"InvalidOtp", "OtpExpired", "Fault"})
     /\ \A s \in Sessions, c \in Codes :
          (/\ Begins(s, "verify_email")
           /\ StaleCode(session[s].user, "email_verification", c)
           /\ api_verify_email_get(s, c))
            => FailsWith(s, {"InvalidOtp", "OtpExpired", "Fault"})
     /\ \A s \in Sessions, u \in Users, c \in Codes, t \in OtpTypes :
          (/\ Begins(s, "verify_otp")
           /\ StaleCode(u, t, c)
           /\ verify_otp_check(s, u, c, t))
            => FailsWith(s, {"False"})
    ]_vars

\* The code c is the code of the most recently created unused record of
\* (u, t), and that record has not expired.
LatestCode(u, t, c) ==
  /\ unused_of_type(u, t) /= {}
  /\ OTP[latest(unused_of_type(u, t))].code = c
  /\ now < OTP[latest(unused_of_type(u, t))].created_at + 10

\* C12 (as claimed): a redemption given the code of the latest unused record
\* of (credential, purpose), strictly before its expiry, succeeds: on every
\* path the lookup and the validity test accept it, and the write that
\* follows sets used = true on the record fetched and on no other record.
C12_LatestCodeRedeems ==
  [][/\ \A s \in Sessions, c \in Codes, p \in Pins :
          (/\ Begins(s, "reset_pin")
           /\ LatestCode(session[s].reset_user_id, "pin_reset", c)
           /\ reset_pin_clean(s, c, p))
            => pc'[s] = "reset_clean"
     /\ \A s \in Sessions, c \in Codes :
          (/\ Begins(s, "verify_email")
           /\ LatestCode(session[s].user, "email_verification", c)
           /\ api_verify_email_get(s, c))
            => pc'[s] = "verify_got"
     /\ \A s \in Sessions, u \in Users, c \in Codes, t \in OtpTypes :
          (/\ Begins(s, "verify_otp")
           /\ LatestCode(u, t, c)
           /\ verify_otp_check(s, u, c, t))
            => (pc'[s] = "votp_checked"
                /\ req'[s].otp = latest(unused_of_type(u, t)))
     /\ \A s \in Sessions :
          (pc[s] \in {"reset_got", "verify_got", "votp_checked"}
             /\ pc'[s] /= pc[s])
            => OTP' = [OTP EXCEPT ![req[s].otp].is_used = TRUE]
    ]_vars

\* No unused record of (u, t) with code c is redeemable: there is none, or
\* each one has expired.
NotRedeemable(u, t, c) ==
  \A i \in DOMAIN OTP :
    (Matches(i, u, t, c) /\ ~OTP[i].is_used)
      => now >= OTP[i].created_at + 10

\* C13 (as claimed): a redemption whose lookup finds nothing redeemable
\* (wrong code, no unused record, expired record) ends with a failure result,
\* not with an uncaught error, and changes no OTP record and no Profile.
C13_FailureIsAValue ==
  [][/\ \A s \in Sessions, c \in Codes, p \in Pins :
          (/\ Begins(s, "reset_pin")
           /\ NotRedeemable(session[s].reset_user_id, "pin_reset", c)
           /\ reset_pin_clean(s, c, p))
            => FailsWith(s, {"InvalidOtp", "OtpExpired"})
     /\ \A s \in Sessions :
          (/\ pc[s] = "reset_clean"
           /\ NotRedeemable(req[s].user, "pin_reset", req[s].code)
           /\ reset_pin_get(s))
            => FailsWith(s, {"InvalidOtp", "OtpExpired"})
     /\ \A s \in Sessions, c \in Codes :
          (/\ Begins(s, "verify_email")
           /\ NotRedeemable(session[s].user, "email_verification", c)
           /\ api_verify_email_get(s, c))
            => FailsWith(s, {"InvalidOtp", "OtpExpired"})
     /\ \A s \in Sessions, u \in Users, c \in Codes, t \in OtpTypes :
          (/\ Begins(s, "verify_otp")
           /\ (unused_of_type(u, t) = {} \/ ~LatestCode(u, t, c))
           /\ verify_otp_check(s, u, c, t))
            => FailsWith(s, {"False"})
    ]_vars

\* The step appends one record for (u, t) to the OTP table and leaves the
\* records already there as they were.
Issued(u, t) ==
  /\ Len(OTP') = Len(OTP) + 1
  /\ \A i \in DOMAIN OTP : OTP'[i] = OTP[i]
  /\ LET r == OTP'[Len(OTP')] IN
       /\ r.user = u
       /\ r.otp_type = t
       /\ r.is_used = FALSE
       /\ r.created_at = now
       /\ r.expires_at = now + 10
       /\ \E n \in randint_draws :
            100000 <= n /\ n <= 999999 /\ r.code = ToString(n)

\* C14: issuing an OTP (forgot_pin_view, api_send_verification_email, both
\* through create_otp_record) creates one new record with used = false,
\* expiry = issue time + 10 minutes and a code in 100000..999999, whether or
\* not the mail is delivered, and leaves every existing record unchanged and
\* undeleted, earlier unused records of the same credential and purpose
\* included.
C14_IssueAddsOneRecord ==
  [][/\ \A s \in Sessions, e \in Users, c \in Codes, m \in BOOLEAN :
          (Begins(s, "forgot_pin") /\ forgot_pin_view(s, e, c, m))
            => Issued(e, "pin_reset")
     /\ \A s \in Sessions, c \in Codes, m \in BOOLEAN :
          (/\ Begins(s, "send_verification")
           /\ api_send_verification_email(s, c, m))
            => Issued(session[s].user, "email_verification")
    ]_vars

\* A second pin_reset record has just been issued to a credential whose
\* earlier record, issued 10 minutes before, is still there and still unused.
C14_Witness ==
  /\ resp.op = "forgot_pin"
  /\ Len(OTP) = 2
  /\ OTP[1].user = OTP[2].user
  /\ OTP[1].otp_type = "pin_reset" /\ OTP[2].otp_type = "pin_reset"
  /\ ~OTP[1].is_used /\ ~OTP[2].is_used
  /\ OTP[1].created_at < now
  /\ OTP[2].created_at = now /\ OTP[2].expires_at = now + 10

\* C15: every policy the form accepts satisfies two_factor_enabled =>
\* session_timeout >= 15, so every stored policy does.  A submission with
\* two-factor on and a timeout below 15 (10 in particular) or no usable
\* timeout is not saved and leaves the stored policy unchanged; what is saved
\* is what was submitted.
C15_TwoFactorTimeoutFloor ==
  [][/\ \A u \in Users :
          SecuritySettings'[u].two_factor_enabled
            => SecuritySettings'[u].session_timeout >= 15
     /\ \A s \in Sessions, tf \in BOOLEAN, b \in BOOLEAN,
          t \in SubmittedTimeouts, m \in SubmittedAttempts :
          (/\ Begins(s, "security_settings")
           /\ security_settings_view(s, tf, b, t, m))
            => /\ (tf /\ (b \/ t < 15))
                    => /\ resp'.outcome /= "Saved"
                       /\ SecuritySettings' = SecuritySettings
               /\ (tf /\ ~b /\ t = 10)
                    => /\ resp'.outcome = "TimeoutBelowFloor"
                       /\ SecuritySettings' = SecuritySettings
               /\ resp'.outcome = "Saved"
                    => /\ ~b /\ (tf => t >= 15)
                       /\ SecuritySettings'[session[s].user] =
                            [two_factor_enabled |-> tf,
                             session_timeout |-> t,
                             max_login_attempts |-> m]
    ]_vars

\* A submission with two-factor on was refused for its timeout by a user who
\* had before stored a policy with two-factor off and that very timeout.
C15_Witness ==
  /\ resp.op = "security_settings"
  /\ resp.outcome = "TimeoutBelowFloor"
  /\ ~SecuritySettings[resp.user].two_factor_enabled
  /\ SecuritySettings[resp.user].session_timeout = 10

\* The results of login_view that refuse the submission.
Rejections ==
  {"FormInvalid", "InvalidPassword", "UserNotFound", "AccountInactive"}

\* C16 (as claimed): every login submission appends exactly one entry to the
\* journal before it returns, whatever its result, and every step-up PIN
\* submission appends exactly one more.
C16_OneEntryPerSubmission ==
  [][/\ \A s \in Sessions, e \in Identities, p \in Passwords :
          (Begins(s, "login") /\ login_view(s, e, p))
            => Len(LoginHistory') = Len(LoginHistory) + 1
     /\ \A s \in Sessions, p \in Pins :
          (/\ Begins(s, "verify_pin")
           /\ has_pending_marker(session[s])
           /\ verify_pin_view(s, p))
            => Len(LoginHistory') = Len(LoginHistory) + 1
    ]_vars

\* C17 (as claimed): a login submission for an identity that matches no
\* credential appends one failure entry with a null credential and the
\* reason "User not found", and is refused as an ordinary result.
C17_UnknownIdentityJournaled ==
  [][\A s \in Sessions, e \in Identities, p \in Passwords :
       (Begins(s, "login") /\ e \notin DOMAIN User /\ login_view(s, e, p))
         => /\ LoginHistory' =
                 Append(LoginHistory, Entry(None, now, FALSE, "User not found"))
            /\ resp'.outcome \in Rejections
    ]_vars

\* C18 (as claimed): a login submission with the correct password for an
\* inactive credential appends one failure entry "Account inactive" and is
\* refused; no session is established and no pending marker is set.
C18_InactiveJournaled ==
  [][\A s \in Sessions, e \in Users, p \in Passwords :
       (/\ Begins(s, "login")
        /\ CorrectPassword(e, p) /\ ~User[e].is_active
        /\ login_view(s, e, p))
         => /\ LoginHistory' =
                 Append(LoginHistory,
                        Entry(e, now, FALSE, "Account inactive"))
            /\ resp'.outcome \in Rejections
            /\ session' = session
    ]_vars

\* The PIN p is the PIN stored for u.
CorrectPin(u, p) == u \in DOMAIN UserProfile /\ UserProfile[u].pin = p

C20_CorrectPinAuthenticates ==
  [][\A s \in Sessions, p \in Pins :
       (Begins(s, "verify_pin") /\ verify_pin_view(s, p))
         => LET u == session[s].pending_user_id IN
            /\ resp'.outcome /= "RedirectLogin"
                 => (session[s].pending_auth /\ u /= None)
            /\ CorrectPin(u, p)
                 => /\ resp'.outcome = "Authenticated"
                    /\ LoginHistory' =
                         Append(LoginHistory, Entry(u, now, TRUE, None))
                    /\ session'[s].user = u
                    /\ ~session'[s].pending_auth
                    /\ session'[s].pending_user_id = None
    ]_vars

\* C21 (as claimed): a registration that the form accepts completes without
\* a uniqueness fault, and after a successful registration the new credential
\* has its Profile and its SecurityPolicy.
C21_RegistrationCreatesAll ==
  [][\A s \in Sessions, e \in Users, p \in Passwords, pin \in Pins,
       c \in BOOLEAN :
       (Begins(s, "register") /\ register_view(s, e, p, pin, c))
         => /\ resp'.outcome /= "Fault"
            /\ resp'.outcome = "Registered"
                 => /\ e \in DOMAIN User'
                    /\ e \in DOMAIN UserProfile'
                    /\ e \in DOMAIN SecuritySettings'
    ]_vars

\* C22 (as claimed): after a successful registration Profile.pin is the PIN
\* that was submitted, so the next login of that credential with the correct
\* password, when not locked out, yields AwaitingStepUp.
C22_RegistrationStoresPin ==
  [][/\ \A s \in Sessions, e \in Users, p \in Passwords, pin \in Pins,
          c \in BOOLEAN :
          (/\ Begins(s, "register")
           /\ register_view(s, e, p, pin, c)
           /\ resp'.outcome = "Registered")
            => /\ e \in DOMAIN UserProfile'
               /\ UserProfile'[e].pin = pin
     /\ \A s \in Sessions, e \in Users, p \in Passwords :
          (/\ Begins(s, "login")
           /\ CorrectPassword(e, p)
           /\ ~LockedOut(e)
           /\ login_view(s, e, p))
            => resp'.outcome = "AwaitingStepUp"
    ]_vars

\* C23: a step-up submission in a session without the pending marker is sent
\* back to the login page whatever PIN it carries: nothing is appended to the
\* journal and no session changes.
C23_NoMarkerNoStepUp ==
  [][\A s \in Sessions, p \in Pins :
       (/\ Begins(s, "verify_pin")
        /\ ~(session[s].pending_auth /\ session[s].pending_user_id /= None)
        /\ verify_pin_view(s, p))
         => /\ resp'.outcome = "RedirectLogin"
            /\ LoginHistory' = LoginHistory
            /\ session' = session
    ]_vars

\* A step-up submission was sent back to login while the other session was
\* awaiting step-up for a credential with a PIN.
C23_Witness ==
  /\ resp.op = "verify_pin"
  /\ resp.outcome = "RedirectLogin"
  /\ \E s, t \in Sessions :
       /\ ~session[s].pending_auth
       /\ session[s].user = None
       /\ session[t].pending_auth
       /\ HasPin(session[t].pending_user_id)

\* The pending marker of a session.
Marker(sess) == <<sess.pending_auth, sess.pending_user_id>>

\* C24: the pending marker belongs to one session.  A login, step-up or
\* logout request of session t leaves every other session as it was, marker
\* included; a session's marker comes to name a credential only through a
\* login submission of that session with that credential's password; and a
\* step-up that authenticates a session authenticates it as the credential
\* its own marker names.
C24_MarkerPerSession ==
  [][/\ \A t \in Sessions :
          (\/ /\ Begins(t, "login")
              /\ \E e \in Identities, p \in Passwords : login_view(t, e, p)
           \/ /\ Begins(t, "verify_pin")
              /\ \E p \in Pins : verify_pin_view(t, p)
           \/ /\ Begins(t, "logout")
              /\ logout_view(t))
            => \A s \in Sessions \ {t} : session'[s] = session[s]
     /\ \A s \in Sessions :
          (/\ Marker(session'[s]) /= Marker(session[s])
           /\ session'[s].pending_auth)
            => LET u == session'[s].pending_user_id IN
               /\ u \in Users
               /\ \E p \in Passwords :
                    CorrectPassword(u, p) /\ login_view(s, u, p)
     /\ \A s \in Sessions, p \in Pins :
          (/\ Begins(s, "verify_pin")
           /\ verify_pin_view(s, p)
           /\ resp'.outcome = "Authenticated")
            => /\ session[s].pending_auth
               /\ session'[s].user = session[s].pending_user_id
    ]_vars

\* One session completed step-up while the other, awaiting step-up for the
\* same credential, kept its marker and stayed anonymous.
C24_Witness ==
  /\ resp.op = "verify_pin"
  /\ resp.outcome = "Authenticated"
  /\ \E s, t \in Sessions :
       /\ s /= t
       /\ session[t].user = "u1"
       /\ ~session[t].pending_auth
       /\ session[s].user = None
       /\ session[s].pending_auth
       /\ session[s].pending_user_id = "u1"

\* The records that carry `code` for credential u and purpose `otp_type`.
BoundTo(u, code, otp_type) ==
  {i \in DOMAIN OTP : /\ OTP[i].user = u
                      /\ OTP[i].code = code
                      /\ OTP[i].otp_type = otp_type}

\* The request in flight in session s redeems a record of its own credential
\* with the purpose `otp_type` and the code that was submitted.
RedeemsOwn(s, otp_type) ==
  /\ req[s].otp \in BoundTo(req[s].user, req[s].code, otp_type)

\* C25: a code is bound to its credential and its purpose.  A PIN changes
\* only in a PIN-reset request that redeems a pin_reset record of that
\* credential carrying the submitted code, and an e-mail becomes verified
\* only in a verification request that redeems an email_verification record
\* of that credential; a record is marked used only by a request for its own
\* credential; and a submitted code that only records of another credential
\* or another purpose carry is refused as invalid.
C25_CodeBoundToPurpose ==
  [][/\ \A u \in DOMAIN UserProfile :
          /\ UserProfile'[u].pin /= UserProfile[u].pin
               => \E s \in Sessions :
                    /\ pc[s] = "reset_otp_saved"
                    /\ req[s].user = u
                    /\ RedeemsOwn(s, "pin_reset")
                    /\ reset_pin_save_profile(s)
          /\ UserProfile'[u].email_verified /= UserProfile[u].email_verified
               => \E s \in Sessions :
                    /\ pc[s] = "verify_otp_saved"
                    /\ req[s].user = u
                    /\ RedeemsOwn(s, "email_verification")
                    /\ api_verify_email_save_profile(s)
     /\ \A i \in DOMAIN OTP :
          OTP'[i].is_used /= OTP[i].is_used
            => \E s \in Sessions :
                 /\ req[s].otp = i
                 /\ req[s].user = OTP[i].user
                 /\ req[s].code = OTP[i].code
                 /\ \/ pc[s] = "reset_got" /\ OTP[i].otp_type = "pin_reset"
                    \/ /\ pc[s] = "verify_got"
                       /\ OTP[i].otp_type = "email_verification"
                    \/ pc[s] = "votp_checked"
     /\ \A s \in Sessions, c \in Codes, p \in Pins :
          (/\ Begins(s, "reset_pin")
           /\ BoundTo(session[s].reset_user_id, c, "pin_reset") = {}
           /\ reset_pin_clean(s, c, p))
            => resp'.outcome = "InvalidOtp"
     /\ \A s \in Sessions, c \in Codes :
          (/\ Begins(s, "verify_email")
           /\ BoundTo(session[s].user, c, "email_verification") = {}
           /\ api_verify_email_get(s, c))
            => resp'.outcome = "InvalidOtp"
    ]_vars

\* A PIN reset was refused as invalid although the submitted code is that of
\* an unused, unexpired email_verification record of the same credential.
C25_Witness ==
  /\ resp.op = "reset_pin"
  /\ resp.outcome = "InvalidOtp"
  /\ \E s \in Sessions, i \in DOMAIN OTP :
       /\ session[s].reset_user_id = OTP[i].user
       /\ OTP[i].code = resp.code
       /\ OTP[i].otp_type = "email_verification"
       /\ ~OTP[i].is_used
       /\ now < OTP[i].expires_at

\* What identifies an OTP record: everything but its used flag.
Identity(r) == [r EXCEPT !.is_used = FALSE]

\* C26: across login, step-up, OTP issue and OTP redemption the journal only
\* grows: every entry stays at its place as it was written; and no OTP
\* record is deleted: every record stays, with its credential, purpose,
\* code and times.
C26_JournalAppendOnly ==
  [][/\ Len(LoginHistory') >= Len(LoginHistory)
     /\ \A i \in DOMAIN LoginHistory : LoginHistory'[i] = LoginHistory[i]
     /\ Len(OTP') >= Len(OTP)
     /\ \A i \in DOMAIN OTP : Identity(OTP'[i]) = Identity(OTP[i])
    ]_vars

\* After an accepted password, a wrong PIN and the redemption of a code, a
\* further login was journaled.
C26_Witness ==
  /\ resp.op = "login"
  /\ Len(LoginHistory) >= 3
  /\ \E i, j \in DOMAIN LoginHistory :
       i < j /\ j < Len(LoginHistory)
       /\ LoginHistory[i].success /\ ~LoginHistory[j].success
  /\ \E i \in DOMAIN OTP : OTP[i].is_used

\* The journal entry of a login rejected for too many failed attempts.
Rejected(u, t) == Entry(u, t, FALSE, "Too many failed attempts")

\* The failures of u that the lockout check counts once the step is taken.
RecentFailuresAfter(u) ==
  Cardinality({i \in DOMAIN LoginHistory' :
                 /\ LoginHistory'[i].user = u
                 /\ LoginHistory'[i].success = FALSE
                 /\ now' - LoginHistory'[i].login_time <= 30})

\* C27 (as claimed): the lockout extends itself.  A correct-password login
\* of a credential whose previous journal entry is a too-many-attempts
\* rejection less than 30 minutes old is rejected again.
C27_LockoutSelfExtending ==
  [][(/\ Begins("s1", "login")
      /\ LoginHistory /= <<>>
      /\ \E t \in 0..MaxTimeExtend :
           Last(LoginHistory) = Rejected("u1", t) /\ now - t < 30
      /\ login_view("s1", "u1", "good"))
        => resp'.outcome = "TooManyAttempts"
    ]_vars

\* C27 (amended): a correct-password login is rejected as TooManyAttempts
\* exactly when the failures of the last 30 minutes, earlier rejections
\* included, have reached max_login_attempts; the rejection is journaled as
\* a failure that the next check counts; and with max_login_attempts = 1 a
\* login less than 30 minutes after a rejection is rejected again.
C27_RejectionCounts ==
  [][(Begins("s1", "login") /\ login_view("s1", "u1", "good"))
        => /\ (resp'.outcome = "TooManyAttempts") = LockedOut("u1")
           /\ LockedOut("u1")
                => /\ LoginHistory' =
                        Append(LoginHistory, Rejected("u1", now))
                   /\ RecentFailuresAfter("u1") = RecentFailures("u1") + 1
           /\ (/\ SecuritySettings["u1"].max_login_attempts = 1
               /\ \E i \in DOMAIN LoginHistory :
                    /\ LoginHistory[i] = Rejected("u1", LoginHistory[i].login_time)
                    /\ now - LoginHistory[i].login_time < 30)
                => resp'.outcome = "TooManyAttempts"
    ]_vars

\* With max_login_attempts = 1, a login was rejected although every failure
\* that is not itself a rejection is older than 30 minutes.
C27_Witness ==
  /\ resp.op = "login"
  /\ resp.outcome = "TooManyAttempts"
  /\ SecuritySettings["u1"].max_login_attempts = 1
  /\ Last(LoginHistory) = Rejected("u1", now)
  /\ \A i \in Failures("u1") :
       LoginHistory[i].failure_reason /= "Too many failed attempts"
         => now - LoginHistory[i].login_time > 30

\* The wrong-PIN failures of u within the last 30 minutes.
RecentPinFailures(u) ==
  Cardinality({i \in Failures(u) :
                 /\ LoginHistory[i].failure_reason = "Invalid PIN"
                 /\ now - LoginHistory[i].login_time <= 30})

\* Wrong PINs alone have reached u's lockout threshold.
PinLockedOut(u) ==
  RecentPinFailures(u) >= SecuritySettings[u].max_login_attempts

\* C28: wrong PINs count toward the login lockout.  Once max_login_attempts
\* wrong PIN submissions lie within 30 minutes, a login of the credential
\* with the correct password returns TooManyAttempts and sets no marker,
\* while a session that already holds the marker and submits the correct PIN
\* is Authenticated.
C28_WrongPinsLockLogin ==
  [][/\ \A s \in Sessions, e \in Users, p \in Passwords :
          (/\ Begins(s, "login")
           /\ CorrectPassword(e, p) /\ User[e].is_active
           /\ PinLockedOut(e)
           /\ login_view(s, e, p))
            => /\ resp'.outcome = "TooManyAttempts"
               /\ session' = session
     /\ \A s \in Sessions, p \in Pins :
          (/\ Begins(s, "verify_pin")
           /\ session[s].pending_auth /\ session[s].user = None
           /\ PinLockedOut(session[s].pending_user_id)
           /\ CorrectPin(session[s].pending_user_id, p)
           /\ verify_pin_view(s, p))
            => /\ resp'.outcome = "Authenticated"
               /\ session'[s].user = session[s].pending_user_id
    ]_vars

\* Wrong PINs locked the credential, a correct-password login in the other
\* session was rejected for it, and the session that held the marker then
\* completed step-up.
C28_Witness ==
  /\ resp.op = "verify_pin"
  /\ resp.outcome = "Authenticated"
  /\ \E s \in Sessions, i, j \in DOMAIN LoginHistory :
       LET u == session[s].user IN
       /\ u /= None
       /\ i < j
       /\ LoginHistory[i] = Entry(u, LoginHistory[i].login_time, FALSE,
                                  "Invalid PIN")
       /\ LoginHistory[j] = Rejected(u, LoginHistory[j].login_time)
       /\ PinLockedOut(u)
       /\ Last(LoginHistory) = Entry(u, now, TRUE, None)

\* The step appends one entry to the journal.
Appends == Len(LoginHistory') = Len(LoginHistory) + 1

\* C29: the value checked against max_login_attempts is the number of
\* failure entries of that credential no older than 30 minutes, whatever
\* successes and whatever entries of other credentials the journal holds: a
\* correct-password login is rejected as TooManyAttempts exactly when that
\* number has reached the threshold, and a step that journals a success, or
\* an entry of another credential, leaves the number as it was.
C29_SuccessNeverResets ==
  [][/\ \A e \in Users :
          (Begins("s1", "login") /\ login_view("s1", e, "good"))
            => (resp'.outcome = "TooManyAttempts")
                 = (Cardinality({i \in Failures(e) :
                                   LoginHistory[i].login_time >= now - 30})
                      >= SecuritySettings[e].max_login_attempts)
     /\ \A u \in Users :
          (Appends /\ (Last(LoginHistory').success
                         \/ Last(LoginHistory').user /= u))
            => RecentFailuresAfter(u) = RecentFailures(u)
    ]_vars

\* A login of u1 was rejected although u1 had signed in after its first
\* failure, while the journal also holds a failure of u2.
C29_Witness ==
  /\ resp.op = "login"
  /\ resp.outcome = "TooManyAttempts"
  /\ Last(LoginHistory) = Rejected("u1", now)
  /\ \E i \in Failures("u1"), j \in DOMAIN LoginHistory :
       /\ i < j /\ j < Len(LoginHistory)
       /\ LoginHistory[j].user = "u1" /\ LoginHistory[j].success
  /\ RecentFailures("u1") = SecuritySettings["u1"].max_login_attempts + 1
  /\ Failures("u2") /= {}

\* C30 (as claimed): policy validation raises no uncontrolled fault.  A
\* submission with two-factor on and a session timeout that is missing or
\* outside 5..1440 is refused with a validation error, and the stored
\* policy stays as it was.
C30_PolicyValidationControlled ==
  [][\A s \in Sessions, tf \in BOOLEAN, b \in BOOLEAN,
        t \in SubmittedTimeouts, m \in SubmittedAttempts :
       (/\ Begins(s, "security_settings")
        /\ tf
        /\ (b \/ t < SESSION_TIMEOUT_MIN \/ t > SESSION_TIMEOUT_MAX)
        /\ security_settings_view(s, tf, b, t, m))
         => /\ resp'.outcome \in {"Invalid", "TimeoutBelowFloor"}
            /\ SecuritySettings' = SecuritySettings
    ]_vars

====
